---- MODULE Spec2Model ----
(***************************************************************************)
(* A model of california_dashboard.py: the load_data preparation step, the *)
(* four sidebar filters, and the aggregates the script recomputes on every *)
(* run (KPI cards, latitude-bin means, the two box-plot groupings).        *)
(*                                                                         *)
(* Numbers.  A dataframe cell holding a float is modelled exactly, as a    *)
(* record [k, n, d]: k = "fin" is the rational n/d in lowest terms with    *)
(* d > 0, k = "inf" is +infinity and k = "nan" is not-a-number.  Binary    *)
(* rounding error of float64 is not modelled.                              *)
(***************************************************************************)
EXTENDS Integers, Sequences, FiniteSets, TLC

VARIABLES csv, loaded, cache, housing, lat_edges, age_range, income_range,
          rph_range, selected_ocean, filtered, kpi, lat_value, ocean_box, age_box

vars == <<csv, loaded, cache, housing, lat_edges, age_range, income_range,
          rph_range, selected_ocean, filtered, kpi, lat_value, ocean_box, age_box>>

\* ------------------------------------------------------------- bounds
\* Longest input file (rows) of the dashboard specification.
MaxRows == 3
\* Longest input file (rows) of the binning specification.
MaxBinRows == 3

\* ------------------------------------------------------------- numbers
Abs(i) == IF i < 0 THEN -i ELSE i

RECURSIVE GCD(_, _)
GCD(a, b) == IF b = 0 THEN a ELSE GCD(b, a % b)

NaN == [k |-> "nan", n |-> 0, d |-> 0]
Inf == [k |-> "inf", n |-> 1, d |-> 0]

\* The rational n/d (d # 0) in lowest terms.
Fin(n, d) ==
    LET s == IF d < 0 THEN -1 ELSE 1
        g == GCD(Abs(n), Abs(d))
    IN  [k |-> "fin", n |-> (s * n) \div g, d |-> (s * d) \div g]

Num(i) == [k |-> "fin", n |-> i, d |-> 1]

IsFin(x) == x.k = "fin"
IsNaN(x) == x.k = "nan"

\* IEEE comparisons: anything compared with NaN is false.
Lt(x, y) ==
    CASE IsNaN(x) \/ IsNaN(y) -> FALSE
      [] x.k = "inf"          -> FALSE
      [] y.k = "inf"          -> TRUE
      [] OTHER                -> x.n * y.d < y.n * x.d

Leq(x, y) ==
    CASE IsNaN(x) \/ IsNaN(y) -> FALSE
      [] y.k = "inf"          -> TRUE
      [] x.k = "inf"          -> FALSE
      [] OTHER                -> x.n * y.d <= y.n * x.d

Add(x, y) ==
    CASE IsNaN(x) \/ IsNaN(y)         -> NaN
      [] x.k = "inf" \/ y.k = "inf"   -> Inf
      [] OTHER                        -> Fin(x.n * y.d + y.n * x.d, x.d * y.d)

Sub(x, y) ==
    CASE IsNaN(x) \/ IsNaN(y) -> NaN
      [] y.k = "inf"          -> NaN
      [] x.k = "inf"          -> Inf
      [] OTHER                -> Fin(x.n * y.d - y.n * x.d, x.d * y.d)

Mul(x, y) ==
    CASE IsNaN(x) \/ IsNaN(y)         -> NaN
      [] x.k = "inf" \/ y.k = "inf"   -> IF x.n = 0 \/ y.n = 0 THEN NaN ELSE Inf
      [] OTHER                        -> Fin(x.n * y.n, x.d * y.d)

\* Elementwise float division of two columns of non-negative numbers:
\* x/0 is +inf for x > 0 and NaN for x = 0; no error is raised.
Div(x, y) ==
    CASE IsNaN(x) \/ IsNaN(y)           -> NaN
      [] x.k = "inf" /\ y.k = "inf"     -> NaN
      [] x.k = "inf"                    -> Inf
      [] y.k = "inf"                    -> Num(0)
      [] y.n = 0                        -> IF x.n = 0 THEN NaN ELSE Inf
      [] OTHER                          -> Fin(x.n * y.d, x.d * y.n)

\* Python's int(x) on a finite float: truncation toward zero.
PyInt(x) == IF x.n >= 0 THEN x.n \div x.d ELSE -((-x.n) \div x.d)

\* Python's built-in min(a, b): b only when b < a.
PyMin(a, b) == IF Lt(b, a) THEN b ELSE a

\* Series.min() / Series.max(): NaN cells are skipped; NaN when none is left.
RECURSIVE FoldMin(_, _)
FoldMin(s, acc) ==
    IF s = <<>> THEN acc
    ELSE LET x == Head(s)
         IN  FoldMin(Tail(s), IF IsNaN(x) THEN acc
                              ELSE IF IsNaN(acc) \/ Lt(x, acc) THEN x ELSE acc)

RECURSIVE FoldMax(_, _)
FoldMax(s, acc) ==
    IF s = <<>> THEN acc
    ELSE LET x == Head(s)
         IN  FoldMax(Tail(s), IF IsNaN(x) THEN acc
                              ELSE IF IsNaN(acc) \/ Lt(acc, x) THEN x ELSE acc)

SeriesMin(s) == FoldMin(s, NaN)
SeriesMax(s) == FoldMax(s, NaN)

\* Series.mean(): the mean of the non-NaN cells; NaN for an empty series.
RECURSIVE FoldSum(_, _)
FoldSum(s, acc) ==
    IF s = <<>> THEN acc
    ELSE FoldSum(Tail(s), IF IsNaN(Head(s)) THEN acc ELSE Add(acc, Head(s)))

SeriesMean(s) ==
    LET kept == SelectSeq(s, LAMBDA x : ~IsNaN(x))
    IN  IF kept = <<>> THEN NaN ELSE Div(FoldSum(kept, Num(0)), Num(Len(kept)))

Column(df, c) == [i \in 1..Len(df) |-> df[i][c]]

\* ------------------------------------------------------------- pd.cut
\* numpy.linspace(mn, mx, nbins + 1): nbins + 1 evenly spaced edges.
Linspace(mn, mx, nbins) ==
    [j \in 1..(nbins + 1) |->
        IF j = nbins + 1 THEN mx
        ELSE Add(mn, Div(Mul(Num(j - 1), Sub(mx, mn)), Num(nbins)))]

\* Mutant of NbinsToBins: the first edge is left at the minimum.
NbinsToBinsNoAdjust(x, nbins) == Linspace(SeriesMin(x), SeriesMax(x), nbins)

\* pd.cut(x, bins=nbins) with an integer bin count (right=True): the edges
\* span the observed min..max, and the FIRST edge is then lowered by 0.1% of
\* the range; when min = max the range is widened by 0.1% of |min| on each
\* side (0.001 when min = 0) before it is divided.
NbinsToBins(x, nbins) ==
    LET mn == SeriesMin(x)
        mx == SeriesMax(x)
    IN  IF mn = mx
        THEN LET w  == IF mn.n # 0 THEN Fin(Abs(mn.n), 1000 * mn.d) ELSE Fin(1, 1000)
             IN  Linspace(Sub(mn, w), Add(mx, w), nbins)
        ELSE LET e   == Linspace(mn, mx, nbins)
                 adj == Mul(Sub(mx, mn), Fin(1, 1000))
             IN  [e EXCEPT ![1] = Sub(e[1], adj)]

\* Mutant of AgeEdges: range(0, 50, 5), one edge short.
AgeEdgesShort == [j \in 1..10 |-> Num(5 * (j - 1))]

\* range(0, 55, 5): the edges 0, 5, ..., 50.
AgeEdges == [j \in 1..11 |-> Num(5 * (j - 1))]

\* bins.searchsorted(v, side="left"): how many edges are strictly below v.
SearchSortedLeft(edges, v) == Cardinality({j \in 1..Len(edges) : Lt(edges[j], v)})

\* The category code pd.cut gives v for right-closed intervals
\* (edges[c+1], edges[c+2]]: searchsorted - 1, and -1 (missing) for a value
\* at or below the first edge, above the last edge, or NaN.
CutCode(edges, v) ==
    LET ids == SearchSortedLeft(edges, v)
    IN  IF IsNaN(v) \/ ids = 0 \/ ids = Len(edges) THEN -1 ELSE ids - 1

\* The age_category lambda.
AgeCategory(x) == IF Lt(x, Num(20)) THEN "New (<20)" ELSE "Old (>=20)"

LatEdges(raw) == NbinsToBins(Column(raw, "latitude"), 5)

\* load_data: the rows of the file, in file order, each with its index label
\* and the six derived columns.
load_data(raw) ==
    LET lat_bins == LatEdges(raw)
    IN
    [j \in 1..Len(raw) |->
        LET r == raw[j]
        IN  [idx                      |-> j - 1,
             longitude                |-> r.longitude,
             latitude                 |-> r.latitude,
             housing_median_age       |-> r.housing_median_age,
             total_rooms              |-> r.total_rooms,
             total_bedrooms           |-> r.total_bedrooms,
             population               |-> r.population,
             households               |-> r.households,
             median_income            |-> r.median_income,
             median_house_value       |-> r.median_house_value,
             ocean_proximity          |-> r.ocean_proximity,
             rooms_per_household      |-> Div(r.total_rooms, r.households),
             bedrooms_per_room        |-> Div(r.total_bedrooms, r.total_rooms),
             population_per_household |-> Div(r.population, r.households),
             lat_bin                  |-> CutCode(lat_bins, r.latitude),
             age_bin                  |-> CutCode(AgeEdges, r.housing_median_age),
             age_category             |-> AgeCategory(r.housing_median_age)]]

\* ------------------------------------------------------------- sidebar
\* Slider bounds, recomputed from the dataset on every run.
AgeMin(h) == Num(PyInt(SeriesMin(Column(h, "housing_median_age"))))
AgeMax(h) == Num(PyInt(SeriesMax(Column(h, "housing_median_age"))))
IncMin(h) == SeriesMin(Column(h, "median_income"))
IncMax(h) == SeriesMax(Column(h, "median_income"))
RphMin(h) == SeriesMin(Column(h, "rooms_per_household"))
RphMax(h) == PyMin(Num(10), SeriesMax(Column(h, "rooms_per_household")))

\* Series.unique().tolist(): the distinct labels in order of first appearance.
RECURSIVE Unique(_)
Unique(s) ==
    IF s = <<>> THEN <<>>
    ELSE LET init == Unique(SubSeq(s, 1, Len(s) - 1))
             x    == s[Len(s)]
         IN  IF \E j \in 1..Len(init) : init[j] = x THEN init ELSE Append(init, x)

OceanOptions(h) == Unique(Column(h, "ocean_proximity"))
Range(s) == {s[j] : j \in 1..Len(s)}

\* Positions the user drags a slider handle to, besides the two ends (the
\* income slider is only ever dragged to its ends).
AgeStops    == {Num(20)}
IncomeStops == {}
RphStops    == {Num(5)}

\* The values a slider with the given ends offers (within the stops above).
SliderPicks(lo, hi, stops) == {lo, hi} \cup {v \in stops : Leq(lo, v) /\ Leq(v, hi)}

\* ------------------------------------------------------------- filter
\* Mutant of Between: both ends exclusive (inclusive="neither").
BetweenExclusive(x, lo, hi) == Lt(lo, x) /\ Lt(x, hi)

\* Mutant of Between: the two ends passed in the wrong order.
BetweenSwapped(x, lo, hi) == Leq(hi, x) /\ Leq(x, lo)

\* Series.between(lo, hi): inclusive at both ends, False for NaN.
Between(x, lo, hi) == Leq(lo, x) /\ Leq(x, hi)

\* The four predicates of lines 44-47 on one row.
RowMatches(row, a, i, r, o) ==
    /\ Between(row.housing_median_age, a[1], a[2])
    /\ Between(row.median_income, i[1], i[2])
    /\ Between(row.rooms_per_household, r[1], r[2])
    /\ row.ocean_proximity \in o

\* Mutant of Mask: the mask is built one row off (row j gets the cell of
\* row j + 1, the last row False).
MaskShifted(h, a, i, r, o) ==
    [j \in 1..Len(h) |-> j < Len(h) /\ RowMatches(h[j + 1], a, i, r, o)]

\* The boolean mask of lines 44-47: the AND of the four predicates, per row.
Mask(h, a, i, r, o) == [j \in 1..Len(h) |-> RowMatches(h[j], a, i, r, o)]

\* df[mask]: a new frame holding the rows whose mask cell is True, in order.
RECURSIVE BooleanIndex(_, _)
BooleanIndex(df, mask) ==
    IF df = <<>> THEN <<>>
    ELSE LET rest == BooleanIndex(SubSeq(df, 1, Len(df) - 1), mask)
         IN  IF mask[Len(df)] THEN Append(rest, df[Len(df)]) ELSE rest

ApplyFilters(h, a, i, r, o) == BooleanIndex(h, Mask(h, a, i, r, o))

\* ------------------------------------------------------------- KPI cards
\* round(x * scale) to the nearest integer, ties to even (x finite).
RoundHalfEven(x, scale) ==
    LET num == x.n * scale
        q   == num \div x.d
        rem == num % x.d
    IN  IF 2 * rem < x.d THEN q
        ELSE IF 2 * rem > x.d THEN q + 1
        ELSE IF q % 2 = 0 THEN q ELSE q + 1

Pad(n, width) ==
    IF width = 3 /\ n < 10 THEN "00" \o ToString(n)
    ELSE IF (width = 3 /\ n < 100) \/ (width = 2 /\ n < 10) THEN "0" \o ToString(n)
    ELSE ToString(n)

\* The "," format option on a non-negative integer: groups of three digits.
RECURSIVE Commas(_)
Commas(n) ==
    IF n < 1000 THEN ToString(n)
    ELSE Commas(n \div 1000) \o "," \o Pad(n % 1000, 3)

\* f"{x:,.0f}" for x >= 0, inf or NaN.
FormatCommas0f(x) ==
    CASE IsNaN(x)    -> "nan"
      [] x.k = "inf" -> "inf"
      [] OTHER       -> Commas(RoundHalfEven(x, 1))

\* f"{x:.2f}" for x >= 0, inf or NaN.
Format2f(x) ==
    CASE IsNaN(x)    -> "nan"
      [] x.k = "inf" -> "inf"
      [] OTHER       -> LET c == RoundHalfEven(x, 100)
                        IN  ToString(c \div 100) \o "." \o Pad(c % 100, 2)

\* The three metric cards.
KPI(f) ==
    [value  |-> "$" \o FormatCommas0f(SeriesMean(Column(f, "median_house_value"))),
     income |-> Format2f(SeriesMean(Column(f, "median_income"))),
     rows   |-> Commas(Len(f))]

\* ------------------------------------------------------------- tabs
ValuesWhere(f, c, v) ==
    Column(SelectSeq(f, LAMBDA row : row[c] = v), "median_house_value")

\* Tab 4: one list of house values per label present in the view.
OceanBox(f) ==
    LET cats == Unique(Column(f, "ocean_proximity"))
    IN  [cats |-> cats,
         data |-> [j \in 1..Len(cats) |-> ValuesWhere(f, "ocean_proximity", cats[j])]]

\* Tab 5: groupby('lat_bin', observed=False) mean: one row per category of
\* the column, in category order, NaN for a category with no row in the view.
\* The key is the category's position; the text of the interval label that
\* astype(str) produces is not modelled.
LatValue(f) ==
    [j \in 1..5 |->
        [lat_bin            |-> j - 1,
         median_house_value |-> SeriesMean(ValuesWhere(f, "lat_bin", j - 1))]]

\* Tab 11: the two fixed age categories.
AgeBox(f) ==
    LET cats == <<"New (<20)", "Old (>=20)">>
    IN  [cats |-> cats,
         data |-> [j \in 1..2 |-> ValuesWhere(f, "age_category", cats[j])]]

\* ------------------------------------------------------------- inputs
RawRow(age, inc, rooms, hh, ocean, value, lat) ==
    [longitude          |-> Num(-120),
     latitude           |-> lat,
     housing_median_age |-> age,
     total_rooms        |-> Num(rooms),
     total_bedrooms     |-> Num(1),
     population         |-> Num(6),
     households         |-> Num(hh),
     median_income      |-> Num(inc),
     median_house_value |-> Num(value),
     ocean_proximity    |-> ocean]

\* Rows of the dashboard specification: ordinary rows, a row with more than
\* 10 rooms per household, a row with households = 0 and one with
\* households = total_rooms = 0, and an age that is not a whole number.
SampleRows ==
    { RawRow(Num(19),    2, 4,  2, "INLAND",   100001, Num(34)),
      RawRow(Fin(41, 2), 2, 24, 2, "NEAR BAY", 300000, Num(38)),
      RawRow(Num(19),    5, 5,  0, "NEAR BAY", 200000, Num(36)),
      RawRow(Fin(41, 2), 5, 0,  0, "INLAND",   150000, Num(34)),
      RawRow(Num(20),    3, 10, 2, "NEAR BAY", 250000, Num(35)) }

\* Rows of the binning specification: ages at, between and beyond the age
\* edges, latitudes at, between and on the latitude edges.
BinRows ==
    { RawRow(Num(0),     2, 4,  2, "INLAND", 100000, Num(30)),
      RawRow(Num(5),     2, 4,  2, "INLAND", 200000, Num(31)),
      RawRow(Fin(15, 2), 3, 10, 2, "INLAND", 300000, Num(32)),
      RawRow(Num(50),    3, 10, 2, "INLAND", 400000, Num(35)),
      RawRow(Num(52),    3, 4,  2, "INLAND", 500000, Fin(67, 2)) }

SeqsUpTo(S, n) == UNION {[1..m -> S] : m \in 1..n}

\* The three sliders of lines 28-36 are given well-ordered, finite ends
\* exactly when the smallest rooms-per-household ratio is finite and at
\* most 10; only such files lead to a rendered dashboard.
SlidersOK(raw) ==
    LET h == load_data(raw)
    IN  IsFin(RphMin(h)) /\ Leq(RphMin(h), RphMax(h))

SampleFiles == {raw \in SeqsUpTo(SampleRows, MaxRows) : SlidersOK(raw)}
BinFiles    == {raw \in SeqsUpTo(BinRows, MaxBinRows) : SlidersOK(raw)}

\* ------------------------------------------------------------- the script
NoRange == <<NaN, NaN>>
NoKPI   == [value |-> "", income |-> "", rows |-> ""]
NoBox   == [cats |-> <<>>, data |-> <<>>]

\* Before the first run: the file is on disk, nothing is loaded or drawn.
InitFrom(files) ==
    /\ csv \in files
    /\ loaded = FALSE
    /\ cache = <<>>
    /\ housing = <<>>
    /\ lat_edges = <<>>
    /\ age_range = NoRange
    /\ income_range = NoRange
    /\ rph_range = NoRange
    /\ selected_ocean = {}
    /\ filtered = <<>>
    /\ kpi = NoKPI
    /\ lat_value = <<>>
    /\ ocean_box = NoBox
    /\ age_box = NoBox

Init     == InitFrom(SampleFiles)
InitBins == InitFrom(BinFiles)

\* Lines 43-186 for the dataset h and the widget values a, i, r, o: the
\* filtered view and everything drawn from it.
Render(h, a, i, r, o) ==
    /\ age_range' = a
    /\ income_range' = i
    /\ rph_range' = r
    /\ selected_ocean' = o
    /\ filtered' = ApplyFilters(h, a, i, r, o)
    /\ kpi' = KPI(filtered')
    /\ ocean_box' = OceanBox(filtered')
    /\ lat_value' = LatValue(filtered')
    /\ age_box' = AgeBox(filtered')

\* Mutant of CachedLoad: the name is rebound to the previous view.
CachedLoadView == filtered

\* st.cache_data on a later run: the stored return value of load_data.
CachedLoad == cache

\* The first run of the script: load_data reads the file and its result is
\* cached; every widget takes its default, the full range or label set.
FirstRun ==
    /\ ~loaded
    /\ loaded' = TRUE
    /\ cache' = load_data(csv)
    /\ housing' = cache'
    /\ lat_edges' = LatEdges(csv)
    /\ Render(housing',
              <<AgeMin(housing'), AgeMax(housing')>>,
              <<IncMin(housing'), IncMax(housing')>>,
              <<RphMin(housing'), RphMax(housing')>>,
              Range(OceanOptions(housing')))
    /\ UNCHANGED csv

\* Mutant of Rerun: the new criteria are applied to the previous view
\* instead of the whole dataset.
RerunIncremental(a, i, r, o) ==
    /\ loaded
    /\ housing' = CachedLoad
    /\ Render(filtered, a, i, r, o)
    /\ UNCHANGED <<csv, loaded, cache, lat_edges>>

\* A widget change reruns the whole script with the new widget values; the
\* run is not interleaved with another one.
Rerun(a, i, r, o) ==
    /\ loaded
    /\ housing' = CachedLoad
    /\ Render(housing', a, i, r, o)
    /\ UNCHANGED <<csv, loaded, cache, lat_edges>>

ChangeAge ==
    /\ loaded
    /\ \E lo, hi \in SliderPicks(AgeMin(housing), AgeMax(housing), AgeStops) :
        /\ Leq(lo, hi)
        /\ <<lo, hi>> # age_range
        /\ Rerun(<<lo, hi>>, income_range, rph_range, selected_ocean)

ChangeIncome ==
    /\ loaded
    /\ \E lo, hi \in SliderPicks(IncMin(housing), IncMax(housing), IncomeStops) :
        /\ Leq(lo, hi)
        /\ <<lo, hi>> # income_range
        /\ Rerun(age_range, <<lo, hi>>, rph_range, selected_ocean)

ChangeRph ==
    /\ loaded
    /\ \E lo, hi \in SliderPicks(RphMin(housing), RphMax(housing), RphStops) :
        /\ Leq(lo, hi)
        /\ <<lo, hi>> # rph_range
        /\ Rerun(age_range, income_range, <<lo, hi>>, selected_ocean)

ChangeOcean ==
    /\ loaded
    /\ \E o \in SUBSET Range(OceanOptions(housing)) :
        /\ o # selected_ocean
        /\ Rerun(age_range, income_range, rph_range, o)

Next == FirstRun \/ ChangeAge \/ ChangeIncome \/ ChangeRph \/ ChangeOcean

Spec     == Init /\ [][Next]_vars
SpecBins == InitBins /\ [][Next]_vars

\* ------------------------------------------------------------- properties
\* The four predicates of the current criteria, stated on one row.
RowMeets(row) ==
    /\ Leq(age_range[1], row.housing_median_age)
    /\ Leq(row.housing_median_age, age_range[2])
    /\ Leq(income_range[1], row.median_income)
    /\ Leq(row.median_income, income_range[2])
    /\ Leq(rph_range[1], row.rooms_per_household)
    /\ Leq(row.rooms_per_household, rph_range[2])
    /\ row.ocean_proximity \in selected_ocean

AtDefaults ==
    /\ age_range = <<AgeMin(housing), AgeMax(housing)>>
    /\ income_range = <<IncMin(housing), IncMax(housing)>>
    /\ rph_range = <<RphMin(housing), RphMax(housing)>>
    /\ selected_ocean = Range(OceanOptions(housing))

\* C1: the filtered view is exactly the rows of the dataset that meet all
\* four predicates (ranges inclusive at both ends, label in the selected
\* set), in the dataset's order: no row of the view fails a predicate, no
\* row meeting all four is missing, and the rows keep their relative order.
C1_FilterIsConjunction ==
    loaded =>
        /\ \A j \in 1..Len(filtered) :
              /\ RowMeets(filtered[j])
              /\ \E m \in 1..Len(housing) : housing[m] = filtered[j]
        /\ \A m \in 1..Len(housing) :
              RowMeets(housing[m]) => \E j \in 1..Len(filtered) : filtered[j] = housing[m]
        /\ \A j, m \in 1..Len(filtered) : j < m => filtered[j].idx < filtered[m].idx

\* A view that dropped the first and the last of three rows and kept the middle one.
C1_Witness ==
    /\ loaded
    /\ Len(housing) = 3
    /\ Len(filtered) = 1
    /\ filtered[1].idx = 1
    /\ ~RowMeets(housing[1])

\* C2 (as claimed): with every criterion at its full range / full label set
\* the view is the whole dataset.
C2_IdentityFilter == (loaded /\ AtDefaults) => filtered = housing

\* C3 (as claimed): over an empty view no NaN is formatted into a KPI card.
C3_EmptyViewNoNaN ==
    (loaded /\ filtered = <<>>) => (kpi.value # "$nan" /\ kpi.income # "nan")

\* C4: once loaded, the dataset is never changed by a run: after every step
\* it is what it was, which is the value load_data returned and the cache holds.
C4_DatasetImmutable ==
    [][loaded => (housing' = housing /\ housing' = cache /\ cache' = cache)]_vars

\* The dataset is intact in a state where a run produced a strictly smaller view.
C4_Witness ==
    /\ loaded
    /\ housing = load_data(csv)
    /\ ~AtDefaults
    /\ Len(filtered) < Len(housing)
    /\ Len(filtered) > 0

Widened ==
    /\ Leq(age_range'[1], age_range[1]) /\ Leq(age_range[2], age_range'[2])
    /\ Leq(income_range'[1], income_range[1]) /\ Leq(income_range[2], income_range'[2])
    /\ Leq(rph_range'[1], rph_range[1]) /\ Leq(rph_range[2], rph_range'[2])
    /\ selected_ocean \subseteq selected_ocean'

\* C5: a step that only widens a criterion (lower minimum, higher maximum,
\* more labels) loses no row of the view.
C5_FilterMonotonic ==
    [][(loaded /\ Widened) =>
          \A j \in 1..Len(filtered) : \E m \in 1..Len(filtered') : filtered'[m] = filtered[j]]_vars

\* Narrowed criteria with a non-empty view that a widening step can extend.
C5_Witness ==
    /\ loaded
    /\ Lt(age_range[1], age_range[2])
    /\ selected_ocean # {}
    /\ selected_ocean # Range(OceanOptions(housing))
    /\ filtered # <<>>
    /\ \E m \in 1..Len(housing) :
          /\ housing[m].ocean_proximity \notin selected_ocean
          /\ Leq(rph_range[1], housing[m].rooms_per_household)
          /\ Leq(housing[m].rooms_per_household, rph_range[2])

\* C6: filtering the view again with the same criteria gives the same view.
C6_FilterIdempotent ==
    loaded =>
        ApplyFilters(filtered, age_range, income_range, rph_range, selected_ocean) = filtered

\* A non-empty view of a dataset that also holds rows with a non-finite ratio.
C6_Witness ==
    /\ loaded
    /\ filtered # <<>>
    /\ \E m \in 1..Len(housing) : IsNaN(housing[m].rooms_per_household)
    /\ \E m \in 1..Len(housing) : housing[m].rooms_per_household = Inf

\* C7 (as claimed): rooms_per_household is total_rooms / households when
\* households is not 0, and one and the same sentinel for every row with
\* households = 0, whatever its total_rooms.
C7_SingleSentinel ==
    loaded =>
        /\ \A m \in 1..Len(housing) :
              housing[m].households.n # 0 =>
                  Mul(housing[m].rooms_per_household, housing[m].households)
                      = housing[m].total_rooms
        /\ \A m, j \in 1..Len(housing) :
              (housing[m].households.n = 0 /\ housing[j].households.n = 0) =>
                  housing[m].rooms_per_household = housing[j].rooms_per_household

Floor(x) == x.n \div x.d
Ceil(x)  == -((-x.n) \div x.d)

\* C9 (as claimed): age_bin is the left-closed bin [5k, 5k+5) with
\* k = floor(age / 5) for 0 <= age < 50, and no bin for age >= 50.
C9_LeftClosedAgeBins ==
    loaded =>
        \A m \in 1..Len(housing) :
            LET age == housing[m].housing_median_age
            IN  /\ (Leq(Num(0), age) /\ Lt(age, Num(50))) =>
                       housing[m].age_bin = Floor(Div(age, Num(5)))
                /\ Leq(Num(50), age) => housing[m].age_bin = -1

\* C9 (amended): age_bin is the right-closed bin (5k, 5k+5] with
\* k = ceil(age / 5) - 1 for 0 < age <= 50, one of ten bins; age 0 and every
\* age above 50 fall outside all bins.
C9_RightClosedAgeBins ==
    loaded =>
        \A m \in 1..Len(housing) :
            LET age == housing[m].housing_median_age
                k   == housing[m].age_bin
            IN  /\ (Lt(Num(0), age) /\ Leq(age, Num(50))) =>
                       /\ k = Ceil(Div(age, Num(5))) - 1
                       /\ k \in 0..9
                       /\ Lt(Num(5 * k), age) /\ Leq(age, Num(5 * k + 5))
                /\ (Leq(age, Num(0)) \/ Lt(Num(50), age)) => k = -1

\* Ages 50 (the last edge), 5 (an interior edge) and 0 (the first edge) loaded together.
C9_Witness ==
    /\ loaded
    /\ \E m \in 1..Len(housing) :
          housing[m].housing_median_age = Num(50) /\ housing[m].age_bin = 9
    /\ \E m \in 1..Len(housing) :
          housing[m].housing_median_age = Num(5) /\ housing[m].age_bin = 0
    /\ \E m \in 1..Len(housing) :
          housing[m].housing_median_age = Num(0) /\ housing[m].age_bin = -1

LatMin  == SeriesMin(Column(housing, "latitude"))
LatMax  == SeriesMax(Column(housing, "latitude"))
LatSpan == Sub(LatMax, LatMin)
\* (latitude - min) / width, for width = (max - min) / 5 > 0.
LatOffset(row) == Div(Mul(Num(5), Sub(row.latitude, LatMin)), LatSpan)

\* The per-bin means drawn on tab 5: five groups in bin order, each the mean
\* of the view's rows in that bin, and NaN (not zero) for a bin without rows.
LatGroupsReported ==
    /\ Len(lat_value) = 5
    /\ \A j \in 1..5 :
          LET rows == SelectSeq(filtered, LAMBDA row : row.lat_bin = j - 1)
              mean == lat_value[j].median_house_value
          IN  /\ lat_value[j].lat_bin = j - 1
              /\ rows = <<>> => IsNaN(mean)
              /\ rows # <<>> =>
                    Mul(mean, Num(Len(rows)))
                        = FoldSum(Column(rows, "median_house_value"), Num(0))

====
